---- MODULE Spec2Model ----
(***************************************************************************)
(* Model of the query-orchestration service of src/main.py and of the      *)
(* configuration reader of src/configparse.py.                             *)
(*                                                                         *)
(* Strings are sequences of tokens.  A token is an atomic piece of text:   *)
(* the markers "category:" and "query:", the comma, one blank, a quote     *)
(* character, a category label, a word.  Python's str.split, str.strip and *)
(* the substring test `in` are modelled by what they do on such sequences. *)
(***************************************************************************)
EXTENDS Integers, Sequences, FiniteSets, TLC

VARIABLES
    message,          \* is_termination_msg: the message under test
    term,             \* is_termination_msg: "none" before the call, then "True"/"False"
    classified_task,  \* execute_task: its argument
    ROUTES,           \* main.py: the module-level route table
    pc_exec,          \* execute_task: position of the call
    sent,             \* execute_task: the requests posted so far
    response,         \* execute_task: what requests.post produced
    ret,              \* execute_task: the value returned (or the exception raised)
    config,           \* app.config: the keys of [model_routes] and their values
    boot,             \* the process: "importing", "serving" or "crashed"
    messages,         \* groupchat.messages, shared by every request
    runs,             \* per request: position, posted body, rounds of its chat
    http              \* per request: the HTTP response sent

execVars == <<classified_task, pc_exec, sent, response, ret>>
termVars == <<message, term>>
appVars == <<config, boot, messages, runs, http>>
vars == <<message, term, classified_task, ROUTES, pc_exec, sent, response, ret,
          config, boot, messages, runs, http>>

----------------------------------------------------------------------------
(* Bounds *)

MaxContentLen == 5
MaxQueryLen == 2
MaxJunkLen == 2
MaxSub == 2

----------------------------------------------------------------------------
(* The round limit of the group chat *)

\* GroupChat is built without max_round (src/main.py:212-221), so the
\* library's default limit of rounds applies
max_round == 10

----------------------------------------------------------------------------
(* Strings *)

SeqsUpTo(S, n) == UNION {[1..k -> S] : k \in 0..n}

Blank == " "
Whitespace == {Blank}

\* s[i..j], empty when j < i
Slice(s, i, j) == SubSeq(s, i, j)

\* str.strip(chars): drop the leading and the trailing tokens that are in chars
StripChars(s, chars) ==
    LET keep == {i \in 1..Len(s) : s[i] \notin chars}
    IN  IF keep = {} THEN <<>>
        ELSE LET lo == CHOOSE i \in keep : \A j \in keep : i <= j
                 hi == CHOOSE i \in keep : \A j \in keep : j <= i
             IN  Slice(s, lo, hi)

\* str.strip()
Strip(s) == StripChars(s, Whitespace)

\* sub in s
Contains(s, sub) ==
    \E i \in 1..(Len(s) - Len(sub) + 1) : Slice(s, i, i + Len(sub) - 1) = sub

\* s.startswith(sub)
StartsWith(s, sub) == Len(sub) <= Len(s) /\ Slice(s, 1, Len(sub)) = sub

\* s.split(sep) for a one-token separator: the list of the pieces between
\* the occurrences of sep, left to right
Split(s, sep) ==
    LET hits == {i \in 1..Len(s) : s[i] = sep}
        \* the position of the k-th occurrence; 0 and Len(s) + 1 fence the ends
        cut(k) == IF k = 0 THEN 0
                  ELSE IF k > Cardinality(hits) THEN Len(s) + 1
                  ELSE CHOOSE i \in hits : Cardinality({j \in hits : j < i}) = k - 1
    IN  [k \in 1..(Cardinality(hits) + 1) |-> Slice(s, cut(k - 1) + 1, cut(k) - 1)]

----------------------------------------------------------------------------
(* is_termination_msg, src/main.py:223-225 *)

Agents == {"planner_agent", "decomposer_agent", "classifier_agent",
           "executor_agent", "aggregator_agent"}

\* The literal "The final answer is:": it starts and ends with a non-blank
\* piece and has blanks inside.
Sentinel == <<"The final", Blank, "answer is:">>

ContentTokens == {"The final", Blank, "answer is:", "w"}

Contents == SeqsUpTo(ContentTokens, MaxContentLen)

Messages == [name : Agents \cup {"chat_manager"}, content : Contents]

is_termination_msg_prefix(m) ==
    m.name = "aggregator_agent" /\ StartsWith(Strip(m.content), Sentinel)

is_termination_msg(m) ==
    m.name = "aggregator_agent" /\ Contains(Strip(m.content), Sentinel)

TermInit ==
    /\ message \in Messages
    /\ term = "none"

CheckTermination ==
    /\ term = "none"
    /\ term' = IF is_termination_msg(message) THEN "True" ELSE "False"
    /\ UNCHANGED message

----------------------------------------------------------------------------
(* The route table and the task strings *)

Categories == {"OFD", "TKG", "CAUSAL"}

\* a label the classifier may emit that is no key of ROUTES
OtherLabel == "ZZZ"

\* the two quote characters stripped at src/main.py:189
SQuote == "SQUOTE"
DQuote == "DQUOTE"
Quotes == {SQuote, DQuote}

\* the endpoint URL the configuration means for a category
Endpoint(c) ==
    CASE c = "OFD" -> "https://ofd.example/run"
      [] c = "TKG" -> "https://tkg.example/run"
      [] c = "CAUSAL" -> "https://causal.example/run"

\* the ways app.config may write that URL: bare, or wrapped in quotes
RouteValues(c) ==
    {<<Endpoint(c)>>, <<DQuote, Endpoint(c), DQuote>>, <<SQuote, Endpoint(c), SQuote>>}

RouteTables == {t \in [Categories -> UNION {RouteValues(c) : c \in Categories}] :
                    \A c \in Categories : t[c] \in RouteValues(c)}

CategoryMarker == "category:"
QueryMarker == "query:"
Comma == ","

QueryTokens == {"w", Blank, QueryMarker}
QueryTexts == SeqsUpTo(QueryTokens, MaxQueryLen)

\* the string "category:<c>, query:<q>" of the classifier's format
TaskString(c, q) == <<CategoryMarker, c, Comma, Blank, QueryMarker>> \o q

WellFormedTasks ==
    {TaskString(c, q) : c \in Categories \cup {OtherLabel}, q \in QueryTexts}

JunkTokens == {CategoryMarker, QueryMarker, Comma, Blank, "TKG"}
JunkTasks == SeqsUpTo(JunkTokens, MaxJunkLen)

Tasks == WellFormedTasks \cup JunkTasks

----------------------------------------------------------------------------
(* execute_task, src/main.py:166-205 *)

\* JSON values, as far as the service looks at them
JNull == [type |-> "null", keys |-> {}, text |-> "null"]
JList == [type |-> "array", keys |-> {}, text |-> "upstream"]
JAnswer == [type |-> "object", keys |-> {"answer"}, text |-> "upstream"]
JUpstreamError == [type |-> "object", keys |-> {"error"}, text |-> "upstream"]
ErrorDict(msg) == [type |-> "object", keys |-> {"error"}, text |-> msg]

\* what the endpoint may put in a response body
Bodies == {"not json", "null", "list", "answer object", "error object"}

BodyJson(b) ==
    CASE b = "null" -> JNull
      [] b = "list" -> JList
      [] b = "answer object" -> JAnswer
      [] b = "error object" -> JUpstreamError

\* final statuses requests.post can hand back (redirects with a Location are
\* followed by the library, so a 3xx here is one without)
Statuses == {200, 300, 404, 500}

HttpResponses == [kind : {"http"}, status : Statuses, body : Bodies]
TransportFailures ==
    [kind : {"ConnectionError", "SSLError"}, status : {0}, body : {"not json"}]
NoResponse == [kind |-> "none", status |-> 0, body |-> "not json"]
NeverResponds == [kind |-> "never", status |-> 0, body |-> "not json"]

\* line 173
Malformed(task) ==
    ~Contains(task, <<CategoryMarker>>) \/ ~Contains(task, <<QueryMarker>>)

\* line 176
category_part(task) == Strip(Split(Split(task, CategoryMarker)[2], Comma)[1])

\* line 177
query_part(task) == Strip(Split(task, QueryMarker)[2])

\* line 185: category in ROUTES; a key of ROUTES is a one-token string
InRoutes(cat, routes) == Len(cat) = 1 /\ cat[1] \in DOMAIN routes

\* line 189
route_url(cat, routes) == StripChars(routes[cat[1]], Quotes)

\* lines 193-196: the request posted
Request(task, routes) ==
    [url |-> route_url(category_part(task), routes),
     payload |-> [query |-> query_part(task)]]

Returned(line, value) == [via |-> line, value |-> value]
NotReturned == Returned("none", JNull)
Raised == Returned("raise", JNull)

\* lines 196-205, when the response resp has arrived.  jsonErrorClass is
\* the class of the exception response.json() raises on a body that is no
\* JSON: a RequestException or a plain ValueError, by the library's version.
HandleResponse_no_catch_all(resp, jsonErrorClass) ==
    IF resp.kind \in {"ConnectionError", "SSLError"}
    THEN Returned("line 203", ErrorDict("Request failed"))
    ELSE IF resp.status >= 400 /\ resp.status < 600
    THEN Returned("line 203", ErrorDict("Request failed"))
    ELSE IF resp.body = "not json"
    THEN IF jsonErrorClass = "RequestException"
         THEN Returned("line 203", ErrorDict("Request failed"))
         ELSE Raised
    ELSE Returned("line 200", BodyJson(resp.body))

HandleResponse(resp, jsonErrorClass) ==
    IF resp.kind \in {"ConnectionError", "SSLError"}
    THEN Returned("line 203", ErrorDict("Request failed"))
    ELSE IF resp.status >= 400 /\ resp.status < 600
    THEN Returned("line 203", ErrorDict("Request failed"))
    ELSE IF resp.body = "not json"
    THEN IF jsonErrorClass = "RequestException"
         THEN Returned("line 203", ErrorDict("Request failed"))
         ELSE Returned("line 205", ErrorDict("Execution error"))
    ELSE Returned("line 200", BodyJson(resp.body))

ExecInit ==
    /\ classified_task \in Tasks
    /\ ROUTES \in RouteTables
    /\ pc_exec = "called"
    /\ sent = <<>>
    /\ response = NoResponse
    /\ ret = NotReturned

\* lines 168-196: parse, resolve, post
ExecStart ==
    /\ pc_exec = "called"
    /\ ret' = IF Malformed(classified_task)
              THEN Returned("line 174", ErrorDict("Malformed classified task"))
              ELSE IF ~InRoutes(category_part(classified_task), ROUTES)
              THEN Returned("line 186", ErrorDict("Invalid category"))
              ELSE ret
    /\ sent' = IF Malformed(classified_task)
                  \/ ~InRoutes(category_part(classified_task), ROUTES)
               THEN sent
               ELSE Append(sent, Request(classified_task, ROUTES))
    /\ pc_exec' = IF Malformed(classified_task)
                     \/ ~InRoutes(category_part(classified_task), ROUTES)
                  THEN "returned"
                  ELSE "awaiting"
    /\ UNCHANGED <<classified_task, ROUTES, response>>

\* the endpoint, or the network, answers the request
UpstreamAnswers ==
    /\ pc_exec = "awaiting"
    /\ response = NoResponse
    /\ response' \in HttpResponses \cup TransportFailures
    /\ UNCHANGED <<classified_task, ROUTES, pc_exec, sent, ret>>

\* the endpoint accepts the connection and never answers; requests.post is
\* called without timeout (line 196), so nothing ends the wait
UpstreamSilent ==
    /\ pc_exec = "awaiting"
    /\ response = NoResponse
    /\ response' = NeverResponds
    /\ UNCHANGED <<classified_task, ROUTES, pc_exec, sent, ret>>

\* lines 196-205 once requests.post has come back
ExecFinish ==
    /\ pc_exec = "awaiting"
    /\ response.kind \notin {"none", "never"}
    /\ \E cls \in {"RequestException", "ValueError"} :
           ret' = HandleResponse(response, cls)
    /\ pc_exec' = "returned"
    /\ UNCHANGED <<classified_task, ROUTES, sent, response>>

\* the whole call, for a caller that waits for it
execute_task(task, routes, resp, jsonErrorClass) ==
    IF Malformed(task)
    THEN Returned("line 174", ErrorDict("Malformed classified task"))
    ELSE IF ~InRoutes(category_part(task), routes)
    THEN Returned("line 186", ErrorDict("Invalid category"))
    ELSE HandleResponse(resp, jsonErrorClass)

----------------------------------------------------------------------------
(* Start-up: src/configparse.py:5-14 and src/main.py:12-18 *)

\* the value app.config holds for a category, in one of its spellings
Spelled(style, c) ==
    CASE style = "bare" -> <<Endpoint(c)>>
      [] style = "double" -> <<DQuote, Endpoint(c), DQuote>>
      [] style = "single" -> <<SQuote, Endpoint(c), SQuote>>

\* what app.config may hold: any part of the three keys, in one spelling
Configs ==
    {[c \in D |-> Spelled(style, c)] :
        D \in SUBSET Categories, style \in {"bare", "double"}}

\* read_config("model_routes", key): the value, or an exception
read_config_or_empty(cfg, key) ==
    IF key \in DOMAIN cfg
    THEN [raised |-> FALSE, value |-> cfg[key]]
    ELSE [raised |-> FALSE, value |-> <<>>]

read_config(cfg, key) ==
    IF key \in DOMAIN cfg
    THEN [raised |-> FALSE, value |-> cfg[key]]
    ELSE [raised |-> TRUE, value |-> <<>>]

NoRoutes == [c \in {} |-> <<>>]

\* main.py:14-18, at import: the dict is bound only if all three reads return
LoadRoutes ==
    /\ boot = "importing"
    /\ IF \E c \in Categories : read_config(config, c).raised
       THEN boot' = "crashed" /\ UNCHANGED ROUTES
       ELSE /\ ROUTES' = [c \in Categories |-> read_config(config, c).value]
            /\ boot' = "serving"
    /\ UNCHANGED <<config, messages, runs, http, execVars, termVars>>

----------------------------------------------------------------------------
(* The group chat: src/main.py:211-227 *)

\* the requests the service is given; threaded Flask serves them concurrently
Runs == {"request 1", "request 2"}

\* One message of the conversation: the request whose run appended it, the
\* agent that spoke, and what it said.
NoMessage == [run |-> "none", name |-> "none", kind |-> "none"]

\* groupchat.messages (and the manager's chat history, which mirrors it) is
\* one list for the whole process (main.py:212-221, 227).  The list is kept
\* by what is read of it: which requests appended messages now in it, its
\* last message, how many classified sub-queries the classifier's messages
\* list, how many execute_task results the executor's messages carry.
EmptyChat == [owners |-> {}, last |-> NoMessage, subs |-> 0, results |-> 0]

\* the text of a message of each kind
Content(kind) ==
    IF kind = "final answer" THEN Sentinel \o <<Blank, "w">> ELSE <<"w">>

\* what an agent may say: each agent is a language model prompted to play
\* its role (main.py:33-163); the executor may also call execute_task and
\* then says what the call returned (main.py:208-209)
KindsOf(agent) ==
    CASE agent = "planner_agent" -> {"plan"}
      [] agent = "decomposer_agent" -> {"sub-queries"}
      [] agent = "classifier_agent" -> {"classified"}
      [] agent = "aggregator_agent" -> {"final answer", "text"}
      [] agent = "executor_agent" -> {"tool result", "tool error", "responses"}

\* the calls of execute_task the executor may make (main.py:208-209) and
\* what the endpoint may answer
ChatTasks == {TaskString("TKG", <<"w">>), TaskString(OtherLabel, <<"w">>)}
ChatResponses ==
    {[kind |-> "http", status |-> 200, body |-> "answer object"],
     [kind |-> "http", status |-> 500, body |-> "not json"]}

ToolKind(out) ==
    IF "error" \in out.value.keys THEN "tool error" ELSE "tool result"

\* the list after one more message
Appended(chat, msg, n) ==
    [owners |-> chat.owners \cup {msg.run},
     last |-> msg,
     subs |-> IF msg.kind = "classified" THEN chat.subs + n ELSE chat.subs,
     results |-> IF msg.kind \in {"tool result", "tool error"}
                 THEN chat.results + 1 ELSE chat.results]

\* initiate_chat clears the history (clear_history defaults to True) and
\* sends the user's query
Started(r) ==
    Appended(EmptyChat, [run |-> r, name |-> "chat_manager", kind |-> "user query"], 0)

\* the termination test the manager applies to a message (main.py:227)
Terminates(msg) ==
    is_termination_msg([name |-> msg.name, content |-> Content(msg.kind)])

----------------------------------------------------------------------------
(* The HTTP handler and process_query: src/main.py:229-251 *)

NoUserInput == "<no user_input key>"
RequestBodies == {NoUserInput, "", "What is the GDP trend?"}

\* the chat history as a response carries it: whose messages it holds and
\* its last message
Trace(chat) == [owners |-> chat.owners, last |-> chat.last]
NoTrace == Trace(EmptyChat)

NoHttp == [status |-> 0, top |-> "none", keys |-> {}, error |-> "", trace |-> NoTrace]

\* line 248
BadRequest ==
    [status |-> 400, top |-> "error", keys |-> {}, error |-> "No user input provided",
     trace |-> NoTrace]

\* lines 236 and 251
Processed(chat) ==
    [status |-> 200, top |-> "Processed Query", keys |-> {"result"}, error |-> "",
     trace |-> Trace(chat)]

\* lines 239 and 251
ProcessedError ==
    [status |-> 200, top |-> "Processed Query", keys |-> {"error"},
     error |-> "exception text", trace |-> NoTrace]

\* line 245: data.get("user_input", "")
user_input_or_marker(data) == data

user_input(data) == IF data = NoUserInput THEN "" ELSE data

\* a request: where its handler stands, the body posted, whether
\* process_query was called for it (line 250), the rounds its chat has done
NewRun == [pc |-> "waiting", data |-> NoUserInput, processed |-> FALSE, round |-> 0]

\* user_query up to the first wait of process_query: lines 244-250, 232
UserQuery(r) ==
    /\ boot = "serving"
    /\ runs[r].pc = "waiting"
    /\ \E data \in RequestBodies :
         IF user_input(data) = ""
         THEN /\ http' = [http EXCEPT ![r] = BadRequest]
              /\ runs' = [runs EXCEPT ![r] = [pc |-> "answered", data |-> data,
                                               processed |-> FALSE, round |-> 0]]
              /\ UNCHANGED messages
         ELSE /\ messages' = Started(r)
              /\ runs' = [runs EXCEPT ![r] = [pc |-> "chatting", data |-> data,
                                               processed |-> TRUE, round |-> 0]]
              /\ UNCHANGED http
    /\ UNCHANGED <<config, boot, ROUTES, execVars, termVars>>

\* One round of the chat of request r: the next speaker replies, the reply
\* is appended, and the chat ends on a terminating message or at the round
\* limit; then process_query returns the history and the handler answers.
\* The first speaker is the planner (line 233); later ones are picked by
\* the language model.  The round counter is local to the chat and is gone
\* (0) once the chat has ended.
ChatRound(r) ==
    /\ runs[r].pc = "chatting"
    /\ \E speaker \in Agents, n \in 1..MaxSub,
          task \in ChatTasks, resp \in ChatResponses :
         /\ runs[r].round = 0 => speaker = "planner_agent"
         /\ speaker = "classifier_agent" => messages.subs + n <= MaxSub
         /\ speaker # "classifier_agent" => n = 1
         /\ speaker # "executor_agent" =>
                task = TaskString("TKG", <<"w">>) /\ resp.status = 200
         /\ \E kind \in KindsOf(speaker) :
              /\ kind \in {"tool result", "tool error"} =>
                   /\ messages.results < MaxSub
                   /\ kind = ToolKind(execute_task(task, ROUTES, resp, "ValueError"))
              /\ kind = "responses" =>
                   task = TaskString("TKG", <<"w">>) /\ resp.status = 200
              /\ LET msg == [run |-> r, name |-> speaker, kind |-> kind]
                     chat == Appended(messages, msg, n)
                     done == Terminates(msg) \/ runs[r].round + 1 = max_round
                 IN  /\ messages' = chat
                     /\ runs' = [runs EXCEPT ![r].round = IF done THEN 0 ELSE @ + 1,
                                             ![r].pc = IF done THEN "answered" ELSE @]
                     /\ http' = IF done THEN [http EXCEPT ![r] = Processed(chat)]
                                ELSE http
    /\ UNCHANGED <<config, boot, ROUTES, execVars, termVars>>

\* an exception inside initiate_chat (the model endpoint fails, ...):
\* lines 238-239
ChatFails(r) ==
    /\ runs[r].pc = "chatting"
    /\ runs' = [runs EXCEPT ![r].pc = "answered", ![r].round = 0]
    /\ http' = [http EXCEPT ![r] = ProcessedError]
    /\ UNCHANGED <<config, boot, ROUTES, messages, execVars, termVars>>

----------------------------------------------------------------------------
(* Specifications *)

ExecIdle ==
    /\ classified_task = <<>>
    /\ pc_exec = "idle"
    /\ sent = <<>>
    /\ response = NoResponse
    /\ ret = NotReturned

TermIdle ==
    /\ message = [name |-> "chat_manager", content |-> <<>>]
    /\ term = "none"

AppIdle ==
    /\ config = NoRoutes
    /\ boot = "off"
    /\ messages = EmptyChat
    /\ runs = [r \in Runs |-> NewRun]
    /\ http = [r \in Runs |-> NoHttp]

\* the service: start-up, then requests
Init ==
    /\ config \in Configs
    /\ boot = "importing"
    /\ ROUTES = NoRoutes
    /\ messages = EmptyChat
    /\ runs = [r \in Runs |-> NewRun]
    /\ http = [r \in Runs |-> NoHttp]
    /\ ExecIdle
    /\ TermIdle

Next ==
    \/ LoadRoutes
    \/ \E r \in Runs : UserQuery(r)
    \/ \E r \in Runs : ChatRound(r)
    \/ \E r \in Runs : ChatFails(r)

Spec == Init /\ [][Next]_vars

\* one call of execute_task
InitExec == ExecInit /\ TermIdle /\ AppIdle

NextExec ==
    \/ ExecStart /\ UNCHANGED <<termVars, appVars>>
    \/ UpstreamAnswers /\ UNCHANGED <<termVars, appVars>>
    \/ UpstreamSilent /\ UNCHANGED <<termVars, appVars>>
    \/ ExecFinish /\ UNCHANGED <<termVars, appVars>>

SpecExec == InitExec /\ [][NextExec]_vars

\* one call of is_termination_msg
InitTerm == TermInit /\ ExecIdle /\ ROUTES = NoRoutes /\ AppIdle

NextTerm == CheckTermination /\ UNCHANGED <<ROUTES, execVars, appVars>>

SpecTerm == InitTerm /\ [][NextTerm]_vars

----------------------------------------------------------------------------
(* Properties of execute_task, checked under SpecExec *)

IsErrorResult(r) == r.value.type = "object" /\ "error" \in r.value.keys

TransportFailed(resp) == resp.kind \in {"ConnectionError", "SSLError"}

PayloadSet(r) == r.via = "line 200" /\ r.value.type # "null"

\* C2: a result of execute_task has exactly one of payload and error set.
C2_ExactlyOneOfPayloadError ==
    pc_exec = "returned" => (PayloadSet(ret) /\ ~IsErrorResult(ret))
                              \/ (~PayloadSet(ret) /\ IsErrorResult(ret))

\* C9: a call of execute_task that waits for the endpoint can always go
\* on: the answer arrives or a timeout cuts the wait off, so the call returns
\* also when the endpoint never answers.
C9_WaitingCallCanProceed == pc_exec = "awaiting" => ENABLED NextExec

HasToken(s, tok) == \E i \in 1..Len(s) : s[i] = tok

\* C10: the task "category:c, query:q" with c one of the three categories
\* makes exactly one POST, to the endpoint of c without its quotes, with the
\* payload {"query": q}, q unchanged; a task without one of the two markers,
\* or whose category is no key of the route table, makes no POST and returns
\* an error.  (Stated for the query texts q that have no blank at either
\* end, so that the blanks the parse strips there are not what decides it.)
C10_ExactlyOnePostWithQueryUnchanged ==
    pc_exec # "called" =>
        /\ \A c \in Categories, q \in {t \in QueryTexts : Strip(t) = t} :
               classified_task = TaskString(c, q) =>
                   sent = <<[url |-> <<Endpoint(c)>>, payload |-> [query |-> q]]>>
        /\ (\/ ~HasToken(classified_task, CategoryMarker)
            \/ ~HasToken(classified_task, QueryMarker)
            \/ ~InRoutes(category_part(classified_task), ROUTES)) =>
               /\ sent = <<>>
               /\ IsErrorResult(ret)
               /\ ret.value.text \in {"Malformed classified task", "Invalid category"}

----------------------------------------------------------------------------
(* Property of is_termination_msg, checked under SpecTerm *)

SentinelAt(c, i) ==
    /\ i + 2 <= Len(c)
    /\ c[i] = "The final" /\ c[i + 1] = Blank /\ c[i + 2] = "answer is:"

\* C3: is_termination_msg is true exactly for a message of the aggregator
\* whose content has the sentinel somewhere in it.
C3_TrueIffAggregatorAndSentinel ==
    term # "none" =>
        (term = "True" <=>
            /\ message.name = "aggregator_agent"
            /\ \E i \in 1..Len(message.content) : SentinelAt(message.content, i))

C3_Witness ==
    /\ term = "True"
    /\ message.content[1] = "w"
    /\ SentinelAt(message.content, 3)

----------------------------------------------------------------------------
(* Properties of the service, checked under Spec *)

Answered(r) == runs[r].pc = "answered"

\* C4: when the aggregator speaks, the conversation holds as many
\* execute_task results as classified sub-queries.
C4_ResultsMatchSubQueriesAtAggregation ==
    messages.last.name = "aggregator_agent" => messages.results = messages.subs

\* C5: a run that returns a trace returns one that ends with the
\* aggregator's message carrying the sentinel.
C5_TraceEndsWithFinalAnswer ==
    \A r \in Runs :
        (Answered(r) /\ "result" \in http[r].keys) =>
            /\ http[r].trace.last.name = "aggregator_agent"
            /\ Contains(Content(http[r].trace.last.kind), Sentinel)

\* C6: the trace a request is answered with holds only messages of that
\* request's own run.
C6_TraceHoldsOwnMessagesOnly ==
    \A r \in Runs :
        (Answered(r) /\ "result" \in http[r].keys) => http[r].trace.owners = {r}

\* C7: the process serves only with a route table that has, for each of the
\* three categories, the endpoint the configuration gives; it fails to start
\* exactly when a key is missing; the table never changes once serving.
C7_RoutesTotalAndFixed ==
    /\ [](/\ boot = "serving" =>
                /\ DOMAIN config = Categories
                /\ DOMAIN ROUTES = Categories
                /\ \A c \in Categories : ROUTES[c] = config[c]
          /\ boot = "crashed" => DOMAIN config # Categories
          /\ (\E r \in Runs : runs[r].pc # "waiting") => boot = "serving")
    /\ [][boot = "serving" => ROUTES' = ROUTES]_vars

C7_Witness ==
    /\ boot = "serving"
    /\ messages.last.name = "executor_agent"
    /\ messages.last.kind = "tool result"
    /\ ROUTES["TKG"] = <<DQuote, Endpoint("TKG"), DQuote>>

====
